---- MODULE Spec2Model ----
(***************************************************************************)
(* A model of three pieces of memflow:                                     *)
(*   - the bridge client (flow-core/src/bridge/client.rs): one connection, *)
(*     five request kinds, the 32 MiB chunk loop of virt_read;             *)
(*   - the hinted kernel scan (flow-win32/src/kernel/ntos.rs);             *)
(*   - the physical-read entry points of the FFI layer                     *)
(*     (memflow-ffi/src/mem/phys_mem.rs).                                  *)
(*                                                                         *)
(* Bridge lengths and addresses are counted in blocks of 8 MiB, so that    *)
(* Length::from_mb(32) is 4 blocks.  The client code branches on lengths   *)
(* only through the comparisons with from_mb(32), so a transfer below the  *)
(* cap (32 bytes, say) is represented by any length of at most 4 blocks.   *)
(* Ranges handed to the client lie inside the address space: addr + len    *)
(* does not overflow.                                                      *)
(***************************************************************************)
EXTENDS Integers, Sequences, FiniteSets, TLC

\* ------------------------------------------------------------------------
\* Bridge client: constants and bounds
\* ------------------------------------------------------------------------

\* Length::from_mb(32), in blocks of 8 MiB
ChunkCap == 4

\* longest transfer a caller asks for, in blocks (9 blocks: three chunks)
MaxLen == 9

\* callers start their ranges at 0..MaxAddr
MaxAddr == 1

Addrs == 0..MaxAddr

Lens == 0..MaxLen

\* lengths of the physical transfers: below the cap, exactly the cap, 48 MiB
PhysLens == {1, ChunkCap, (3 * ChunkCap) \div 2}

\* cells of the server's physical memory image
PhysCells == 0..(MaxAddr + MaxLen)

\* the payload a caller writes: a two-valued pattern that depends on position
Pattern(seed, n) == [k \in 1..n |-> 1 + ((seed + k) % 2)]

\* the guest's virtual memory as the server sees it: non-zero, period 3
VMem(a) == 1 + (a % 3)

\* n bytes of the guest's virtual memory from address a
ServerData(a, n) == [k \in 1..n |-> VMem(a + k - 1)]

NoBuf == <<>>

VARIABLES
    pc,        \* "idle", "loop" (inside virt_read's while), "wait" (parked in block_on), "done"
    op,        \* the operation in progress
    addr,      \* its address argument
    len,       \* its length argument (for writes: the length of data)
    data,      \* the payload of a write
    base,      \* virt_read: the loop variable base
    result,    \* virt_read: the buffer being filled
    wire,      \* requests sent on the connection and not yet answered
    sent,      \* every request sent during the current call, in order
    faithful,  \* every reply of the current call carried exactly the requested bytes
    failedAt,  \* index in sent of the sub-request that failed, 0 if none
    copied,    \* virt_read: for each answered chunk, how many bytes the copy wrote into result
    ret,       \* what the call returned: [kind, buf, n]
    physMem    \* the server's physical memory image

bvars == <<pc, op, addr, len, data, base, result, wire, sent, faithful, failedAt, copied, ret,
           physMem>>

\* the kernel scan
VARIABLES
    s_pc,      \* "off", "start", "test" (the while condition), "read", "probe", "done"
    arch,      \* start_block.arch.instruction_set
    hint,      \* start_block.va, in pages
    kernel,    \* the page where the guest's ntoskrnl.exe image starts, -1 if nowhere
    build,     \* "debug": integer overflow panics; "release": it wraps
    va_base,   \* the loop variable
    reads,     \* the addresses of the window reads made so far, in order
    lastN,     \* pages the latest window read returned, -1 for Err
    cands,     \* page indexes of the window still to be probed, in iterator order
    s_ret,     \* what find returned: [kind, addr, msg]
    failed,    \* which virtual read returned Err: "none", "window" or "probe"
    allFull,   \* every virtual read so far returned all the bytes asked for
    wrapped    \* the u64 operation whose true result left 0..2^64-1: "none", "add" or "sub"

svars == <<s_pc, arch, hint, kernel, build, va_base, reads, lastN, cands, s_ret, failed, allFull,
           wrapped>>

\* the FFI layer
VARIABLES
    f_pc,      \* "off", "idle", "conn" (inside the connector), "done"
    f_fn,      \* the entry point called
    f_addrs,   \* the addresses it reads, one per list element
    f_ok,      \* whether the connector's read succeeded
    f_ret      \* what the C caller gets back: [status, value, out]

fvars == <<f_pc, f_fn, f_addrs, f_ok, f_ret>>

NoRet == [kind |-> "none", buf |-> NoBuf, n |-> 0]

RetOk(b, k) == [kind |-> "ok", buf |-> b, n |-> k]

RetErr == [kind |-> "err", buf |-> NoBuf, n |-> 0]

RetPanic == [kind |-> "panic", buf |-> NoBuf, n |-> 0]

Request(o, a, n, d) == [op |-> o, addr |-> a, len |-> n, data |-> d]

BridgeInit ==
    /\ pc = "idle"
    /\ op = "none"
    /\ addr = 0
    /\ len = 0
    /\ data = NoBuf
    /\ base = 0
    /\ result = NoBuf
    /\ wire = <<>>
    /\ sent = <<>>
    /\ faithful = TRUE
    /\ failedAt = 0
    /\ copied = <<>>
    /\ ret = NoRet
    /\ physMem = [c \in PhysCells |-> 0]

\* ------------------------------------------------------------------------
\* Bridge client: the code
\* ------------------------------------------------------------------------

block_on_detached == "loop"

\* where the caller is after request.send(): parked in runtime.block_on until
\* the promise resolves
block_on == "wait"

\* the test that selects the chunk loop
IsChunked(n) == n > ChunkCap

ClampedLen_unclamped(b, e) == ChunkCap

\* clamped_len of one loop iteration
ClampedLen(b, e) == IF b + ChunkCap > e THEN e - b ELSE ChunkCap

CopyInto_nooffset(res, start, mem) ==
    [k \in 1..Len(res) |-> IF k <= Len(mem) THEN mem[k] ELSE res[k]]

\* result[start + i] = mem[i] for every i
CopyInto(res, start, mem) ==
    [k \in 1..Len(res) |-> IF k > start /\ k <= start + Len(mem) THEN mem[k - start] ELSE res[k]]

Propagate_swallowed(reply) == FALSE

\* the ? after virt_read_chunk: an Err leaves virt_read at once
Propagate(reply) == reply.kind = "err"

\* one request goes out on the connection
Send(req) ==
    /\ wire' = Append(wire, req)
    /\ sent' = Append(sent, req)
    /\ pc' = block_on

StartCall(o, a, n, d) ==
    /\ pc = "idle"
    /\ op' = o
    /\ addr' = a
    /\ len' = n
    /\ data' = d
    /\ faithful' = TRUE
    /\ failedAt' = 0
    /\ copied' = <<>>
    /\ ret' = NoRet
    /\ UNCHANGED <<physMem, svars, fvars>>

read_registers ==
    /\ StartCall("read_registers", 0, 0, NoBuf)
    /\ Send(Request("read_registers", 0, 0, NoBuf))
    /\ base' = 0
    /\ result' = NoBuf

phys_read ==
    \E a \in Addrs, n \in PhysLens :
        /\ StartCall("phys_read", a, n, NoBuf)
        /\ Send(Request("phys_read", a, n, NoBuf))
        /\ base' = 0
        /\ result' = NoBuf

phys_write ==
    \E a \in Addrs, n \in PhysLens, s \in 0..1 :
        /\ StartCall("phys_write", a, n, Pattern(s, n))
        /\ Send(Request("phys_write", a, n, Pattern(s, n)))
        /\ base' = 0
        /\ result' = NoBuf

\* virt_write hands the whole of data to virt_write_chunk
virt_write ==
    \E a \in Addrs, n \in Lens, s \in 0..1 :
        /\ StartCall("virt_write", a, n, Pattern(s, n))
        /\ Send(Request("virt_write", a, n, Pattern(s, n)))
        /\ base' = 0
        /\ result' = NoBuf

\* virt_read, len <= 32 MiB: one virt_read_chunk
virt_read_single ==
    \E a \in Addrs, n \in Lens :
        /\ ~IsChunked(n)
        /\ StartCall("virt_read", a, n, NoBuf)
        /\ Send(Request("virt_read", a, n, NoBuf))
        /\ base' = a
        /\ result' = NoBuf

\* virt_read, len > 32 MiB: allocate the zeroed result and enter the loop
virt_read_chunked ==
    \E a \in Addrs, n \in Lens :
        /\ IsChunked(n)
        /\ StartCall("virt_read", a, n, NoBuf)
        /\ base' = a
        /\ result' = [k \in 1..n |-> 0]
        /\ sent' = <<>>
        /\ pc' = "loop"
        /\ UNCHANGED wire

\* while base < end: send the next virt_read_chunk
virt_read_send_chunk ==
    /\ pc = "loop"
    /\ base < addr + len
    /\ Send(Request("virt_read", base, ClampedLen(base, addr + len), NoBuf))
    /\ UNCHANGED <<op, addr, len, data, base, result, faithful, failedAt, copied, ret, physMem>>
    /\ UNCHANGED <<svars, fvars>>

\* the loop is over: Ok(result)
virt_read_finish ==
    /\ pc = "loop"
    /\ ~(base < addr + len)
    /\ pc' = "done"
    /\ ret' = RetOk(result, Len(result))
    /\ UNCHANGED <<op, addr, len, data, base, result, wire, sent, faithful, failedAt, copied,
                   physMem>>
    /\ UNCHANGED <<svars, fvars>>

\* ------------------------------------------------------------------------
\* The server at the other end of the connection
\* ------------------------------------------------------------------------

\* lengths the server may answer a read of n with: nothing, one short, n, one long
ReplyLens(n) == {k \in {0, n - 1, n, n + 1} : k >= 0}

PhysSlice(mem, a, n) == [k \in 1..n |-> mem[a + k - 1]]

Reply(kind, d, n) == [kind |-> kind, data |-> d, n |-> n]

Replies(req) ==
    {Reply("err", NoBuf, 0)} \cup
    CASE req.op = "phys_read" -> {Reply("ok", PhysSlice(physMem, req.addr, req.len), req.len)}
      [] req.op = "virt_read" -> {Reply("ok", ServerData(req.addr, k), k) : k \in ReplyLens(req.len)}
      [] req.op = "phys_write" -> {Reply("ok", NoBuf, req.len)}
      [] req.op = "virt_write" -> {Reply("ok", NoBuf, req.len)}
      [] OTHER -> {Reply("ok", NoBuf, 0)}

PhysStore(mem, a, d) ==
    [c \in PhysCells |-> IF c >= a /\ c < a + Len(d) THEN d[c - a + 1] ELSE mem[c]]

\* ------------------------------------------------------------------------
\* Bridge client: the reply arrives and block_on returns
\* ------------------------------------------------------------------------

\* a reply to a request of every kind but a chunk of the loop
recv_reply ==
    /\ pc = "wait"
    /\ wire /= <<>>
    /\ ~(op = "virt_read" /\ IsChunked(len))
    /\ \E reply \in Replies(Head(wire)) :
        /\ wire' = Tail(wire)
        /\ physMem' = IF op = "phys_write" /\ reply.kind = "ok"
                      THEN PhysStore(physMem, Head(wire).addr, Head(wire).data)
                      ELSE physMem
        /\ faithful' = (faithful /\ reply.kind = "ok" /\ reply.n = Head(wire).len)
        /\ failedAt' = IF reply.kind = "err" THEN Len(sent) ELSE failedAt
        /\ ret' = IF reply.kind = "err" THEN RetErr
                  ELSE IF op \in {"phys_read", "virt_read"} THEN RetOk(reply.data, Len(reply.data))
                  ELSE IF op = "read_registers" THEN RetOk(NoBuf, 0)
                  ELSE RetOk(NoBuf, reply.n)
        /\ pc' = "done"
    /\ UNCHANGED <<op, addr, len, data, base, result, sent, copied, svars, fvars>>

\* a reply to a chunk of the loop
recv_chunk ==
    /\ pc = "wait"
    /\ wire /= <<>>
    /\ op = "virt_read" /\ IsChunked(len)
    /\ \E reply \in Replies(Head(wire)) :
        /\ wire' = Tail(wire)
        /\ faithful' = (faithful /\ reply.kind = "ok" /\ reply.n = Head(wire).len)
        /\ failedAt' = IF reply.kind = "err" THEN Len(sent) ELSE failedAt
        /\ IF Propagate(reply)
           THEN /\ pc' = "done"
                /\ ret' = RetErr
                /\ UNCHANGED <<base, result, copied>>
           ELSE IF (base - addr) + Len(reply.data) > Len(result)
           THEN \* result[start + i] indexes past the end: the bytes that fit
                \* have been written, the call panics
                /\ pc' = "done"
                /\ ret' = RetPanic
                /\ copied' = Append(copied, Len(result) - (base - addr))
                /\ UNCHANGED <<base, result>>
           ELSE /\ result' = CopyInto(result, base - addr, reply.data)
                /\ copied' = Append(copied, Len(reply.data))
                /\ base' = base + Head(wire).len
                /\ pc' = "loop"
                /\ UNCHANGED ret
    /\ UNCHANGED <<op, addr, len, data, sent, physMem, svars, fvars>>

\* the caller takes the returned value; the client is ready for the next call
call_returns ==
    /\ pc = "done"
    /\ pc' = "idle"
    /\ op' = "none"
    /\ addr' = 0
    /\ len' = 0
    /\ data' = NoBuf
    /\ base' = 0
    /\ result' = NoBuf
    /\ sent' = <<>>
    /\ faithful' = TRUE
    /\ failedAt' = 0
    /\ copied' = <<>>
    /\ ret' = NoRet
    /\ UNCHANGED <<wire, physMem, svars, fvars>>

BridgeNext ==
    \/ read_registers
    \/ phys_read
    \/ phys_write
    \/ virt_write
    \/ virt_read_single
    \/ virt_read_chunked
    \/ virt_read_send_chunk
    \/ virt_read_finish
    \/ recv_reply
    \/ recv_chunk
    \/ call_returns

\* ------------------------------------------------------------------------
\* Bridge client: properties
\* ------------------------------------------------------------------------

CeilDiv(n, d) == (n + d - 1) \div d

\* the bridge-level calls a read of n blocks at a is expected to make
ExpectedCalls(a, n) ==
    IF n <= ChunkCap
    THEN <<[addr |-> a, len |-> n]>>
    ELSE [i \in 1..CeilDiv(n, ChunkCap) |->
            [addr |-> a + (i - 1) * ChunkCap,
             len |-> IF i * ChunkCap <= n THEN ChunkCap ELSE n - (i - 1) * ChunkCap]]

IsPrefix(s, t) == Len(s) <= Len(t) /\ \A i \in 1..Len(s) : s[i] = t[i]

SentCalls == [i \in 1..Len(sent) |-> [addr |-> sent[i].addr, len |-> sent[i].len]]

ReadDoneOk == op = "virt_read" /\ pc = "done" /\ ret.kind = "ok"

\* C1: a virt_read of more than 32 MiB sends consecutive, non-overlapping
\* sub-requests of at most 32 MiB each that start at addr and, once the call
\* has succeeded, end at addr+len; when every reply carried the requested
\* bytes, byte k of the result is the server's byte for addr+k, so a 64 MiB
\* read equals the two 32 MiB reads of its halves, concatenated.
C1_ChunkedReadReassembles ==
    (op = "virt_read" /\ len > ChunkCap) =>
        /\ \A i \in 1..Len(sent) :
            /\ sent[i].op = "virt_read"
            /\ sent[i].len <= ChunkCap
            /\ sent[i].addr = (IF i = 1 THEN addr ELSE sent[i - 1].addr + sent[i - 1].len)
        /\ (pc = "done" /\ ret.kind = "ok") =>
            /\ sent /= <<>>
            /\ sent[Len(sent)].addr + sent[Len(sent)].len = addr + len
        /\ (pc = "done" /\ ret.kind = "ok" /\ faithful) =>
            /\ Len(ret.buf) = len
            /\ \A k \in 0..(len - 1) : ret.buf[k + 1] = VMem(addr + k)
            /\ (len = 2 * ChunkCap) =>
                ret.buf = ServerData(addr, ChunkCap) \o ServerData(addr + ChunkCap, ChunkCap)

\* a 64 MiB read from a non-zero address came back whole from faithful replies
C1_Witness ==
    /\ ReadDoneOk
    /\ faithful
    /\ len = 2 * ChunkCap
    /\ addr = 1
    /\ Len(sent) = 2

\* C2: the bridge-level calls of a virt_read are exact: one call of len when
\* len <= 32 MiB, otherwise ceil(len / 32 MiB) calls in ascending address
\* order, all of 32 MiB but the last, which carries the remainder; while the
\* call runs the calls made so far are a prefix of that list.
C2_ExactCalls ==
    (op = "virt_read") =>
        /\ IsPrefix(SentCalls, ExpectedCalls(addr, len))
        /\ (pc = "done" /\ ret.kind = "ok") => SentCalls = ExpectedCalls(addr, len)

\* a 48 MiB read finished after exactly two calls, of 32 MiB then 16 MiB
C2_Witness ==
    /\ ReadDoneOk
    /\ 2 * len = 3 * ChunkCap
    /\ Len(sent) = 2
    /\ sent[1].len = ChunkCap
    /\ 2 * sent[2].len = ChunkCap
    /\ sent[2].addr = addr + ChunkCap

\* C3: no virt_write request carries a payload of more than 32 MiB.
C3_WriteRequestsWithinCap ==
    \A i \in 1..Len(sent) :
        sent[i].op = "virt_write" => Len(sent[i].data) <= ChunkCap

\* C4: a completed phys_write leaves its data in the server's image and a
\* completed phys_read returns the image's bytes (so a read after a write
\* returns what was written), and no phys_read or phys_write request carries
\* more than 32 MiB.
C4_PhysRoundTripChunked ==
    /\ (op = "phys_write" /\ pc = "done" /\ ret.kind = "ok") =>
        PhysSlice(physMem, addr, len) = data
    /\ (op = "phys_read" /\ pc = "done" /\ ret.kind = "ok") =>
        ret.buf = PhysSlice(physMem, addr, len)
    /\ \A i \in 1..Len(sent) :
        sent[i].op \in {"phys_read", "phys_write"} => sent[i].len <= ChunkCap

\* C5: at most one request is outstanding on the connection; a request is
\* outstanding only while the caller is parked waiting for its reply, so an
\* operation neither returns nor sends its next chunk before the reply to the
\* request it sent has arrived.
C5_OneOutstanding ==
    /\ Len(wire) <= 1
    /\ (pc /= "wait") => wire = <<>>
    /\ (pc = "wait") => (wire = <<sent[Len(sent)]>>)

\* the second chunk of a chunked read is on the wire, the first one answered
C5_Witness ==
    /\ op = "virt_read"
    /\ len > ChunkCap
    /\ Len(sent) = 2
    /\ Len(wire) = 1
    /\ base = addr + ChunkCap

\* C6: once a sub-request of a chunked virt_read has failed, the call is over
\* with an error, hands back no buffer, and the failed sub-request is the last
\* one that was sent.
C6_ChunkFailureSurfaces ==
    (op = "virt_read" /\ len > ChunkCap /\ failedAt /= 0) =>
        /\ pc = "done"
        /\ ret = RetErr
        /\ Len(sent) = failedAt
        /\ wire = <<>>

\* the second of three chunks failed
C6_Witness ==
    /\ op = "virt_read"
    /\ len > 2 * ChunkCap
    /\ failedAt = 2
    /\ pc = "done"
    /\ ret.kind = "err"

\* C12: in a chunked virt_read, whatever the length of a reply, the bytes copied
\* from the reply to chunk i lie below len and inside chunk i's own region of
\* the result, and a call that returns Ok returns exactly len bytes, zero
\* wherever a short reply supplied none.
C12_CopyStaysInChunk ==
    (op = "virt_read" /\ len > ChunkCap) =>
        /\ \A i \in 1..Len(copied) :
            /\ (sent[i].addr - addr) + copied[i] <= len
            /\ copied[i] <= sent[i].len
        /\ (pc = "done" /\ ret.kind = "ok") =>
            /\ Len(ret.buf) = len
            /\ \A i \in 1..Len(copied) :
                \A k \in (copied[i] + 1)..sent[i].len :
                    ret.buf[(sent[i].addr - addr) + k] = 0

\* ------------------------------------------------------------------------
\* Kernel scan (ntos.rs): constants and bounds
\*
\* Scan addresses are counted in 4 KiB pages.  A 2 MiB window is 512 pages
\* and the address space 2^64 bytes in the code; the ratio
\* from_mb(32) / from_mb(2) = 16 is kept and the other two are scaled down.
\* ------------------------------------------------------------------------

\* pages in one 2 MiB window
PagesPerWindow == 2

\* 2 MiB windows in the address space
AddrWindows == 40

\* Length::from_mb(2), in pages
Mb2 == PagesPerWindow

\* Length::from_mb(32), in pages
Mb32 == 16 * Mb2

\* the number of addresses of a u64, in pages
AddrPages == AddrWindows * Mb2

\* va & !0x1fffff
AlignDown(va) == (va \div Mb2) * Mb2

NotFoundMsg == "unable to find ntoskrnl.exe"

\* what a page of guest memory holds, as far as the scan looks at it:
\* mz: its first two bytes are 0x5A4D; pool: how many of its aligned 8-byte
\* words equal POOLCODE; unaligned: POOLCODE also sits at an offset that is
\* no multiple of 8; peOk: goblin parses a PE header at the page; name: the
\* DLL name of that header ("" when it has none)
Page(mz, pool, unaligned, peOk, name) ==
    [mz |-> mz, pool |-> pool, unaligned |-> unaligned, peOk |-> peOk, name |-> name]

KernelPage == Page(TRUE, 1, FALSE, TRUE, "ntoskrnl.exe")

\* pages that are not the kernel image, by position
Decoy(p) ==
    CASE p % 8 = 0 -> Page(FALSE, 0, FALSE, FALSE, "")
      [] p % 8 = 1 -> Page(TRUE, 0, FALSE, TRUE, "ntoskrnl.exe")
      [] p % 8 = 2 -> Page(TRUE, 1, FALSE, TRUE, "NTOSKRNL.EXE")
      [] p % 8 = 3 -> Page(TRUE, 0, TRUE, TRUE, "ntoskrnl.exe")
      [] p % 8 = 4 -> Page(FALSE, 1, FALSE, FALSE, "")
      [] p % 8 = 5 -> Page(TRUE, 2, FALSE, TRUE, "hal.dll")
      [] p % 8 = 6 -> Page(TRUE, 1, FALSE, FALSE, "")
      [] OTHER -> Page(TRUE, 1, FALSE, TRUE, "")

\* the guest's memory
Image(p) == IF p = kernel THEN KernelPage ELSE Decoy(p)

SRet(kind, a, msg) == [kind |-> kind, addr |-> a, msg |-> msg]

\* where the guest's kernel image may lie: nowhere, or in the hint's window, the
\* one below, the last one of the 32 MiB span, or the first one below the span
KernelPlaces(h) ==
    {-1} \cup
    {(AlignDown(h) + AddrPages - d * Mb2 + p) % AddrPages :
        d \in {0, 1, 15, 16}, p \in 0..(Mb2 - 1)}

ScanOff ==
    /\ s_pc = "off"
    /\ arch = "X64"
    /\ hint = 0
    /\ kernel = -1
    /\ build = "debug"
    /\ va_base = 0
    /\ reads = <<>>
    /\ lastN = 0
    /\ cands = <<>>
    /\ s_ret = SRet("none", 0, "")
    /\ failed = "none"
    /\ allFull = TRUE
    /\ wrapped = "none"

ScanStart ==
    /\ s_pc = "start"
    /\ arch \in {"X64", "X86"}
    /\ hint \in 0..(AddrPages - 1)
    /\ arch = "X86" => hint = 1
    /\ kernel \in KernelPlaces(hint)
    /\ build \in {"debug", "release"}
    /\ va_base = 0
    /\ reads = <<>>
    /\ lastN = 0
    /\ cands = <<>>
    /\ s_ret = SRet("none", 0, "")
    /\ failed = "none"
    /\ allFull = TRUE
    /\ wrapped = "none"

\* ------------------------------------------------------------------------
\* Kernel scan: the code
\* ------------------------------------------------------------------------

\* find after find_x64_with_va, find_x64 or find_x86 returned Err: the error is
\* logged and find ends with its own Err
FindErr == SRet("err", 0, NotFoundMsg)

Panic == SRet("panic", 0, "")

NameMatches_nocase(name) == name \in {"ntoskrnl.exe", "NTOSKRNL.EXE"}

\* pe.name.unwrap_or_default() == "ntoskrnl.exe"
NameMatches(name) == name = "ntoskrnl.exe"

\* the iterator of one window before the probe filter: every page of buf
\* (chunks_exact drops a trailing partial page) that starts with MZ, once for
\* each of its aligned 8-byte words that equals POOLCODE
RECURSIVE CandidatesFrom(_, _, _)
CandidatesFrom(vb, i, n) ==
    IF i >= n THEN <<>>
    ELSE (IF Image(vb + i).mz THEN [k \in 1..Image(vb + i).pool |-> i] ELSE <<>>)
         \o CandidatesFrom(vb, i + 1, n)

Candidates(vb, n) == CandidatesFrom(vb, 0, n)

\* the probe filter's verdict on a page whose probe read returned probe_buf
Accepts(p, full) == full /\ Image(p).peOk /\ NameMatches(Image(p).name)

find_start ==
    /\ s_pc = "start"
    /\ IF arch = "X64" /\ hint /= 0
       THEN /\ va_base' = AlignDown(hint)
            /\ s_pc' = "test"
            /\ UNCHANGED s_ret
       ELSE /\ s_pc' = "done"
            /\ s_ret' = FindErr
            /\ UNCHANGED va_base
    /\ UNCHANGED <<arch, hint, kernel, build, reads, lastN, cands, failed, allFull, wrapped>>
    /\ UNCHANGED <<bvars, fvars>>

\* while va_base + from_mb(32) > va
scan_test ==
    /\ s_pc = "test"
    /\ wrapped' = IF va_base + Mb32 >= AddrPages THEN "add" ELSE wrapped
    /\ IF va_base + Mb32 >= AddrPages /\ build = "debug"
       THEN /\ s_pc' = "done"
            /\ s_ret' = Panic
       ELSE IF (va_base + Mb32) % AddrPages > hint
       THEN /\ s_pc' = "read"
            /\ UNCHANGED s_ret
       ELSE /\ s_pc' = "done"
            /\ s_ret' = FindErr
    /\ UNCHANGED <<arch, hint, kernel, build, va_base, reads, lastN, cands, failed, allFull>>
    /\ UNCHANGED <<bvars, fvars>>

\* va_base -= from_mb(2), after a window that gave no accepted candidate
StepDown ==
    /\ wrapped' = IF va_base < Mb2 THEN "sub" ELSE wrapped
    /\ IF va_base < Mb2 /\ build = "debug"
       THEN /\ s_pc' = "done"
            /\ s_ret' = Panic
            /\ UNCHANGED va_base
       ELSE /\ va_base' = (va_base + AddrPages - Mb2) % AddrPages
            /\ s_pc' = "test"
            /\ UNCHANGED s_ret

\* mem.virt_read(arch, dtb, va_base, from_mb(2))? and the iterator up to the
\* probe filter
scan_read ==
    /\ s_pc = "read"
    /\ \E n \in (-1)..Mb2 :
        /\ reads' = Append(reads, va_base)
        /\ lastN' = n
        /\ failed' = IF n = -1 THEN "window" ELSE failed
        /\ allFull' = (allFull /\ n = Mb2)
        /\ IF n <= 0
           THEN /\ s_pc' = "done"
                /\ s_ret' = FindErr
                /\ UNCHANGED <<va_base, cands, wrapped>>
           ELSE /\ cands' = Candidates(va_base, n)
                /\ IF cands' = <<>>
                   THEN StepDown
                   ELSE /\ s_pc' = "probe"
                        /\ UNCHANGED <<va_base, s_ret, wrapped>>
    /\ UNCHANGED <<arch, hint, kernel, build, bvars, fvars>>

\* the probe filter on the next candidate: virt_read(probe_addr, 32 MiB).unwrap(),
\* the PE parse, the name comparison; nth(0) takes the first accepted one
scan_probe ==
    /\ s_pc = "probe"
    /\ \E r \in {"err", "empty", "full"} :
        /\ failed' = IF r = "err" THEN "probe" ELSE failed
        /\ allFull' = (allFull /\ r = "full")
        /\ IF r = "err"
           THEN /\ s_pc' = "done"
                /\ s_ret' = Panic
                /\ UNCHANGED <<va_base, cands, wrapped>>
           ELSE IF Accepts(va_base + Head(cands), r = "full")
           THEN /\ s_pc' = "done"
                /\ s_ret' = SRet("ok", va_base + Head(cands), "")
                /\ UNCHANGED <<va_base, cands, wrapped>>
           ELSE /\ cands' = Tail(cands)
                /\ IF cands' = <<>>
                   THEN StepDown
                   ELSE /\ s_pc' = "probe"
                        /\ UNCHANGED <<va_base, s_ret, wrapped>>
    /\ UNCHANGED <<arch, hint, kernel, build, reads, lastN, bvars, fvars>>

ScanStep ==
    \/ find_start
    \/ scan_test
    \/ scan_read
    \/ scan_probe

\* ------------------------------------------------------------------------
\* Kernel scan: properties
\* ------------------------------------------------------------------------

\* the page qualifies: MZ, an aligned POOLCODE, a PE header named ntoskrnl.exe
Qualifies(p) ==
    /\ Image(p).mz
    /\ Image(p).pool > 0
    /\ Image(p).peOk
    /\ Image(p).name = "ntoskrnl.exe"

\* the pages the latest window read returned
LastPagesRead == IF reads = <<>> THEN {} ELSE {reads[Len(reads)] + i : i \in 0..(lastN - 1)}

\* the pages of every window read so far
WindowPages == UNION {{reads[j] + i : i \in 0..(Mb2 - 1)} : j \in 1..Len(reads)}

\* C7: the hinted scan reads its first window at the hint's 2 MiB base, every
\* further window exactly 2 MiB below the one before, at most 16 windows, each
\* starting above hint - 32 MiB and at or below the hint, and none after a
\* candidate has been accepted.
C7_ScanOrder ==
    /\ Len(reads) <= 16
    /\ \A i \in 1..Len(reads) :
        /\ reads[i] = AlignDown(hint) - (i - 1) * Mb2
        /\ reads[i] > hint - Mb32
        /\ reads[i] <= hint
    /\ s_ret.kind = "ok" =>
        /\ s_pc = "done"
        /\ s_ret.addr \in LastPagesRead

\* C8: find returns Ok(A) only for a page A that the latest window read returned and
\* that qualifies; and a find that ended otherwise, with every read answered
\* in full, read no window holding a qualifying page; the image at the base of
\* the hint's window, hint in the middle of that window, is found there.
C8_ReturnsKernelPage ==
    /\ s_ret.kind = "ok" =>
        /\ s_ret.addr \in LastPagesRead
        /\ Qualifies(s_ret.addr)
    /\ (s_pc = "done" /\ allFull /\ s_ret.kind /= "ok") =>
        ~ \E p \in WindowPages : Qualifies(p)
    /\ (s_pc = "done" /\ allFull /\ reads /= <<>>
            /\ kernel = AlignDown(hint) /\ hint = kernel + Mb2 \div 2) =>
        s_ret = SRet("ok", kernel, "")

\* the image one window below the hint's window was found after decoys that
\* pass the MZ and POOLCODE filters had been probed and rejected
C8_Witness ==
    /\ s_pc = "done"
    /\ s_ret.kind = "ok"
    /\ s_ret.addr = kernel
    /\ Len(reads) = 2
    /\ allFull
    /\ \E p \in WindowPages : p /= kernel /\ Image(p).mz /\ Image(p).pool > 0

\* C11: in no iteration of the hinted scan, for any non-null hint, does the
\* loop test va_base + 32 MiB exceed 2^64 - 1 or the step va_base - 2 MiB fall
\* below 0.
C11_ScanArithmeticInRange ==
    wrapped = "none"

\* C9: after a virtual read of the scan has failed, find returns an error that
\* is not the no-candidate error; it does not panic.
C9_ReadFailureReported ==
    (s_pc = "done" /\ failed /= "none") =>
        /\ s_ret.kind = "err"
        /\ s_ret.msg /= NotFoundMsg

\* ------------------------------------------------------------------------
\* FFI physical reads (memflow-ffi phys_mem.rs)
\* ------------------------------------------------------------------------

\* the largest value of a memory word in the model
MaxWord == 2

\* physical addresses the callers read
MaxPhys == 4

Words == 0..MaxWord

\* the connector's memory: word values by address, zero among them
ConnWord(a) == a % (MaxWord + 1)

FRet(status, value, out) == [status |-> status, value |-> value, out |-> out]

NoFRet == FRet(0, 0, <<>>)

FfiOff ==
    /\ f_pc = "off"
    /\ f_fn = "none"
    /\ f_addrs = <<>>
    /\ f_ok = TRUE
    /\ f_ret = NoFRet

FfiStart ==
    /\ f_pc = "idle"
    /\ f_fn = "none"
    /\ f_addrs = <<>>
    /\ f_ok = TRUE
    /\ f_ret = NoFRet

\* the entry points that return an i32 status
StatusFns == {"phys_read_raw", "phys_read_raw_list"}

\* the entry points that return the value read
ValueFns == {"phys_read_u32", "phys_read_u64"}

\* Result::as_int_result
as_int_result(ok) == IF ok THEN 0 ELSE -1

\* Result<T>::unwrap_or_default()
unwrap_or_default(ok, v) == IF ok THEN v ELSE 0

AddrLists == {<<>>} \cup {<<a>> : a \in 0..MaxPhys} \cup {<<a, b>> : a, b \in 0..MaxPhys}

\* the entry point hands the read to the connector
ffi_call(fn, as) ==
    /\ f_pc' = "conn"
    /\ f_fn' = fn
    /\ f_addrs' = as
    /\ f_ok' = TRUE
    /\ f_ret' = NoFRet
    /\ UNCHANGED <<bvars, svars>>

phys_read_raw_list ==
    /\ f_pc = "idle"
    /\ \E as \in AddrLists : ffi_call("phys_read_raw_list", as)

phys_read_raw ==
    /\ f_pc = "idle"
    /\ \E a \in 0..MaxPhys : ffi_call("phys_read_raw", <<a>>)

phys_read_u32 ==
    /\ f_pc = "idle"
    /\ \E a \in 0..MaxPhys : ffi_call("phys_read_u32", <<a>>)

phys_read_u64 ==
    /\ f_pc = "idle"
    /\ \E a \in 0..MaxPhys : ffi_call("phys_read_u64", <<a>>)

\* the connector answers and the entry point returns to the C caller
ffi_return ==
    /\ f_pc = "conn"
    /\ \E ok \in BOOLEAN :
        /\ f_ok' = ok
        /\ f_ret' =
            IF f_fn \in StatusFns
            THEN FRet(as_int_result(ok), 0,
                      IF ok THEN [i \in 1..Len(f_addrs) |-> ConnWord(f_addrs[i])]
                      ELSE [i \in 1..Len(f_addrs) |-> 0])
            ELSE FRet(0, unwrap_or_default(ok, ConnWord(f_addrs[1])), <<>>)
    /\ f_pc' = "done"
    /\ UNCHANGED <<f_fn, f_addrs, bvars, svars>>

ffi_next_call ==
    /\ f_pc = "done"
    /\ f_pc' = "idle"
    /\ f_fn' = "none"
    /\ f_addrs' = <<>>
    /\ f_ok' = TRUE
    /\ f_ret' = NoFRet
    /\ UNCHANGED <<bvars, svars>>

FfiStep ==
    \/ phys_read_raw_list
    \/ phys_read_raw
    \/ phys_read_u32
    \/ phys_read_u64
    \/ ffi_return
    \/ ffi_next_call

\* r is something a successful call of fn can hand back: status 0 from an entry
\* point that returns a status, any word from one that returns the value read
LooksLikeSuccess(fn, r) ==
    IF fn \in StatusFns THEN r.status = 0 ELSE r.value \in Words

\* C10: a physical read of the FFI layer that failed in the connector hands the
\* caller an outcome that no successful read could have handed back.
C10_FfiReadFailureVisible ==
    (f_pc = "done" /\ ~f_ok) => ~LooksLikeSuccess(f_fn, f_ret)

\* ------------------------------------------------------------------------
\* Specifications
\* ------------------------------------------------------------------------

vars == <<bvars, svars, fvars>>

Init == BridgeInit /\ ScanOff /\ FfiOff

Next == BridgeNext

\* the bridge client
Spec == Init /\ [][Next]_vars

ScanInit == BridgeInit /\ ScanStart /\ FfiOff

ScanNext == ScanStep

\* the kernel scan
ScanSpec == ScanInit /\ [][ScanNext]_vars

FfiInit == BridgeInit /\ ScanOff /\ FfiStart

FfiNext == FfiStep

\* the FFI layer
FfiSpec == FfiInit /\ [][FfiNext]_vars

====
